---- MODULE Spec2Model ----
(***************************************************************************)
(* Model of Form_Field_Export_to_Word_app.py.                              *)
(*                                                                         *)
(* SpecNormalize : process_excel_st, one action per step of the function.  *)
(*                                                                         *)
(* Cell values are records [t, s, n]: t = "none" is Python None (NaN in a  *)
(* DataFrame), t = "str" a string kept as the sequence s of its            *)
(* characters, t = "int" the integer n.                                    *)
(***************************************************************************)
EXTENDS Integers, Sequences, FiniteSets, TLC

VARIABLES
    uploaded_file,              \* the uploaded workbook: [has_sheet, rows]
    start_row,                  \* parameter start_row of process_excel_st
    sheet,                      \* wb[sheet_name]: rows 1..max_row, 15 cells each
    pc,                         \* position inside process_excel_st
    bird_species_found_at_row,  \* 0 stands for None
    end_row_for_processing,
    end_row_for_deletion,
    result,                     \* the pair returned by process_excel_st
    df,                         \* pd.read_excel(excel_bytes): [has_columns, rows]
    session_state,              \* the config_choice_ entries of st.session_state
    sort_ties,                  \* how this build's sort orders equal keys
    generated_files,            \* what create_forms_from_excel_st returns
    cpc,                        \* position inside create_forms_from_excel_st
    docx_value,                 \* the argument value of safe_text_for_docx
    docx_text,                  \* what safe_text_for_docx returns
    tpc,                        \* position inside safe_text_for_docx
    file_uploader,              \* the file selected in the uploader widget
    st_session_state,           \* st.session_state of the browser session
    rerun,                      \* st.rerun() was called: a script run is due
    page,                       \* what the last script run rendered and called
    history                     \* what happened since the last reset_app_state

normalizeVars == <<uploaded_file, start_row, sheet, pc, bird_species_found_at_row,
                   end_row_for_processing, end_row_for_deletion, result>>

composeVars == <<df, session_state, sort_ties, generated_files, cpc>>

sanitizeVars == <<docx_value, docx_text, tpc>>

appVars == <<file_uploader, st_session_state, rerun, page, history>>

vars == <<normalizeVars, composeVars, sanitizeVars, appVars>>

\* the variables a call of process_excel_st leaves alone
outsideNormalize == <<composeVars, sanitizeVars, appVars>>

\* the variables a call of create_forms_from_excel_st leaves alone
outsideCompose == <<normalizeVars, sanitizeVars, appVars>>

\* the variables a call of safe_text_for_docx leaves alone
outsideSanitize == <<normalizeVars, composeVars, appVars>>

\* no call of process_excel_st is under way
NormalizeIdle ==
    /\ uploaded_file = [has_sheet |-> FALSE, rows |-> <<>>]
    /\ start_row = 1
    /\ sheet = <<>>
    /\ pc = "idle"
    /\ bird_species_found_at_row = 0
    /\ end_row_for_processing = 0
    /\ end_row_for_deletion = 0
    /\ result = [returned |-> FALSE, buffer_none |-> TRUE, buffer |-> <<>>, codes |-> {}]

\* no call of create_forms_from_excel_st is under way
ComposeIdle ==
    /\ df = [has_columns |-> FALSE, rows |-> <<>>]
    /\ session_state = [ids \in {} |-> FALSE]
    /\ sort_ties = "stable"
    /\ generated_files = [returned |-> FALSE, none |-> TRUE, files |-> <<>>]
    /\ cpc = "idle"

\* the script of the application is not running
AppIdle ==
    /\ file_uploader = "None"
    /\ st_session_state = <<>>
    /\ rerun = FALSE
    /\ page = <<>>
    /\ history = <<>>

\* no call of safe_text_for_docx of its own is under way
SanitizeIdle ==
    /\ docx_value = [t |-> "none", s |-> <<>>, n |-> 0]
    /\ docx_text = <<>>
    /\ tpc = "idle"

----------------------------------------------------------------------------
(* Bounds *)

MaxRow == 3

MaxTableRows == 3

MaxOptions == 52

\* the number of fragments an argument of safe_text_for_docx is made of
MaxFragments == 3

\* the calls of create_forms_from_excel_st counted between two resets
MaxCalls == 2

----------------------------------------------------------------------------
(* Values and strings *)

None == [t |-> "none", s |-> <<>>, n |-> 0]

StrVal(chars) == [t |-> "str", s |-> chars, n |-> 0]

IntVal(k) == [t |-> "int", s |-> <<>>, n |-> k]

Whitespace == {" ", "\t", "\n", "NBSP"}

Digits == <<"0", "1", "2", "3", "4", "5", "6", "7", "8", "9">>

RECURSIVE lstrip(_)
lstrip(s) ==
    IF s = <<>> THEN s
    ELSE IF Head(s) \in Whitespace THEN lstrip(Tail(s)) ELSE s

RECURSIVE rstrip(_)
rstrip(s) ==
    IF s = <<>> THEN s
    ELSE IF s[Len(s)] \in Whitespace THEN rstrip(SubSeq(s, 1, Len(s) - 1)) ELSE s

\* str.strip()
strip(s) == rstrip(lstrip(s))

RECURSIVE NatToStr(_)
NatToStr(k) ==
    IF k < 10 THEN <<Digits[k + 1]>>
    ELSE NatToStr(k \div 10) \o <<Digits[(k % 10) + 1]>>

\* str(value)
str(v) ==
    CASE v.t = "str" -> v.s
      [] v.t = "int" -> IF v.n < 0 THEN <<"-">> \o NatToStr(0 - v.n) ELSE NatToStr(v.n)
      [] OTHER       -> <<"N", "o", "n", "e">>

DigitValue(ch) == CHOOSE d \in 0..9 : Digits[d + 1] = ch

IsDigit(ch) == \E d \in 1..10 : Digits[d] = ch

RECURSIVE DigitsToNat(_)
DigitsToNat(s) ==
    IF s = <<>> THEN 0
    ELSE DigitsToNat(SubSeq(s, 1, Len(s) - 1)) * 10 + DigitValue(s[Len(s)])

AllDigits(s) == s # <<>> /\ \A i \in 1..Len(s) : IsDigit(s[i])

\* int(value) inside try/except (ValueError, TypeError): [ok, n]; ok = FALSE
\* is the except branch (col_6_value = None).
int(v) ==
    CASE v.t = "int" -> [ok |-> TRUE, n |-> v.n]
      [] v.t = "str" ->
            LET b == strip(v.s)
                signed == b # <<>> /\ Head(b) \in {"+", "-"}
                d == IF signed THEN Tail(b) ELSE b
            IN  IF AllDigits(d)
                THEN [ok |-> TRUE,
                      n  |-> IF signed /\ Head(b) = "-" THEN 0 - DigitsToNat(d)
                                                         ELSE DigitsToNat(d)]
                ELSE [ok |-> FALSE, n |-> 0]
      [] OTHER -> [ok |-> FALSE, n |-> 0]

BirdSpecies == <<"B", "i", "r", "d", " ", "s", "p", "e", "c", "i", "e", "s">>

DropdownSelect == <<"D", "r", "o", "p", "d", "o", "w", "n", " ",
                    "s", "e", "l", "e", "c", "t">>

EmptySubsection == <<"(", "e", "m", "p", "t", "y", " ", "s", "u", "b",
                     "s", "e", "c", "t", "i", "o", "n", ")">>

valid_values ==
    {10, 11, 12, 14, 15, 17, 18, 19, 28, 29, 30, 94, 103, 104, 107, 108, 109, 117,
     119, 120, 122, 128, 130, 131, 142, 160, 168, 170, 206, 208, 209, 212, 214, 216,
     217, 220, 221, 222, 223, 224, 225, 226, 227, 228, 284, 292, 293, 311, 314, 315,
     316, 320, 325, 326, 371, 431, 980, 995, 1391, 1401, 1404, 1672, 1673, 1759, 2329,
     2440, 2472, 2473, 2485, 2486, 2500, 2502, 3282, 3708, 3709, 3875, 4240, 4243,
     4244, 4245, 5894, 5901, 5940, 7349, 8829, 8830, 9114, 9115, 9116, 9117, 9118, 9119,
     9120, 9121, 9122, 9126, 9127, 9128, 9129, 9130, 9135, 9136, 9137, 9138, 9139, 9140,
     9141, 9142, 9143, 9144, 9145, 9150, 9151, 9152, 9153, 9154, 9155, 9156, 9157, 9158,
     9179, 9180, 9181, 9189, 9191, 9192, 9201, 9202, 9203, 9204, 9205, 9206, 9207, 9208,
     9276, 9277, 9278, 9279, 9280, 9281, 9282, 9298, 9299, 9333, 9529, 9540, 9543, 9544,
     9552, 9557, 9565, 10614, 10618, 12739, 12960, 15463, 23157, 23159}

----------------------------------------------------------------------------
(* The worksheet *)

Columns == 1..15

\* sheet.max_row
max_row(sh) == Len(sh)

\* sheet.cell(row, column).value; a cell that is not there reads as None
cell(sh, row, column) ==
    IF row \in 1..Len(sh) THEN sh[row][column] ELSE None

\* delete_rows starting one row too late
delete_rows_after(sh, idx, amount) ==
    SubSeq(sh, 1, idx) \o SubSeq(sh, idx + 1 + amount, Len(sh))

\* sheet.delete_rows(idx, amount) for rows idx .. idx + amount - 1
delete_rows(sh, idx, amount) ==
    SubSeq(sh, 1, idx - 1) \o SubSeq(sh, idx + amount, Len(sh))

----------------------------------------------------------------------------
(* Step 1 (lines 102-123): the "Bird species" row *)

\* line 107
IsBirdSpecies(v) == v.t = "str" /\ strip(v.s) = BirdSpecies

\* lines 104-109: first row_index in start_row..max_row, 0 if none
FirstBirdSpeciesRow(sh, from) ==
    LET found == {r \in from..max_row(sh) : IsBirdSpecies(cell(sh, r, 7))}
    IN  IF found = {} THEN 0
        ELSE CHOOSE r \in found : \A q \in found : r <= q

\* line 114
PositionIdBlank(v) == v.t = "none" \/ strip(str(v)) = <<>>

----------------------------------------------------------------------------
(* Fill steps (lines 134-188) *)

\* lines 141-142
FillBlank(v) == v.t = "none" \/ (v.t = "str" /\ strip(v.s) = <<>>)

\* lines 139-144: the value of a cell of rows first.. once the row loop has
\* passed it; a blank cell takes the value the cell above has by then
RECURSIVE FilledCell(_, _, _, _)
FilledCell(sh, col_index, row_index, first) ==
    IF row_index < first THEN cell(sh, row_index, col_index)
    ELSE IF FillBlank(cell(sh, row_index, col_index))
         THEN FilledCell(sh, col_index, row_index - 1, first)
         ELSE cell(sh, row_index, col_index)

\* lines 137-144: columns 1..10, rows first..last
FillColumns(sh, first, last) ==
    [r \in 1..Len(sh) |->
        [c \in Columns |->
            IF c \in 1..10 /\ r \in first..last
            THEN FilledCell(sh, c, r, first)
            ELSE sh[r][c]]]

\* line 152, first conjunct
ColCNonBlank(v) == v.t # "none" /\ strip(str(v)) # <<>>

\* line 153 without the whitespace test
ColDBlank_none_only(v) == v.t = "none"

\* line 153
ColDBlank(v) == v.t = "none" \/ strip(str(v)) = <<>>

\* lines 148-154: rows first..last
SpecialFillRows(sh, first, last) ==
    [r \in 1..Len(sh) |->
        IF /\ r \in first..last
           /\ ColCNonBlank(cell(sh, r, 3))
           /\ ColDBlank(cell(sh, r, 4))
        THEN [sh[r] EXCEPT ![4] = StrVal(EmptySubsection)]
        ELSE sh[r]]

\* line 182 without the membership test
ConditionalFillApplies_any_code(sh, row_index) ==
    cell(sh, row_index, 10) = StrVal(DropdownSelect)

\* line 182
ConditionalFillApplies(sh, row_index) ==
    /\ cell(sh, row_index, 10) = StrVal(DropdownSelect)
    /\ int(cell(sh, row_index, 6)).ok
    /\ int(cell(sh, row_index, 6)).n \in valid_values

\* line 186
ConditionalBlank(v) == v.t = "none"

\* lines 182-188: the value of a cell of columns 14..15 and rows first.. once
\* the row loop has passed it
RECURSIVE ConditionalCell(_, _, _, _)
ConditionalCell(sh, col_index, row_index, first) ==
    IF row_index < first THEN cell(sh, row_index, col_index)
    ELSE IF /\ ConditionalFillApplies(sh, row_index)
            /\ ConditionalBlank(cell(sh, row_index, col_index))
         THEN ConditionalCell(sh, col_index, row_index - 1, first)
         ELSE cell(sh, row_index, col_index)

\* lines 173-188: rows first..last
ConditionalFillRows(sh, first, last) ==
    [r \in 1..Len(sh) |->
        [c \in Columns |->
            IF c \in 14..15 /\ r \in first..last
            THEN ConditionalCell(sh, c, r, first)
            ELSE sh[r][c]]]

----------------------------------------------------------------------------
(* Inputs *)

Row(overrides) ==
    [c \in Columns |-> IF c \in DOMAIN overrides THEN overrides[c] ELSE None]

MarkerRows ==
    <<Row(7 :> StrVal(BirdSpecies) @@ 8 :> None),
      Row(7 :> StrVal(BirdSpecies) @@ 8 :> StrVal(<<" ", " ">>)),
      Row(7 :> StrVal(BirdSpecies) @@ 8 :> IntVal(5)),
      Row(7 :> StrVal(<<" ">> \o BirdSpecies) @@ 8 :> None)>>

SectionRows ==
    <<Row(3 :> None @@ 4 :> None),
      Row(3 :> None @@ 4 :> StrVal(<<"b">>)),
      Row(3 :> StrVal(<<" ">>) @@ 4 :> None),
      Row(3 :> StrVal(<<"a">>) @@ 4 :> None),
      Row(3 :> StrVal(<<"a">>) @@ 4 :> StrVal(<<" ">>)),
      Row(3 :> StrVal(<<"a">>) @@ 4 :> StrVal(<<"b">>))>>

FieldRows ==
    <<Row(6 :> None @@ 10 :> StrVal(DropdownSelect) @@ 15 :> StrVal(<<" ">>)),
      Row(6 :> IntVal(10) @@ 10 :> StrVal(DropdownSelect) @@ 15 :> StrVal(<<" ">>)),
      Row(6 :> StrVal(<<" ", "1", "0">>) @@ 10 :> StrVal(DropdownSelect)),
      Row(6 :> IntVal(13) @@ 10 :> StrVal(DropdownSelect)),
      Row(6 :> StrVal(<<"x">>) @@ 10 :> StrVal(DropdownSelect)),
      Row(6 :> IntVal(10) @@ 10 :> None @@ 14 :> StrVal(<<" ">>)),
      Row(6 :> IntVal(10) @@ 10 :> StrVal(DropdownSelect)
          @@ 14 :> StrVal(<<"v">>) @@ 15 :> StrVal(<<"w">>))>>

HeaderRows == <<[c \in Columns |-> StrVal(<<"h">>)]>>

InputRows == MarkerRows \o SectionRows \o FieldRows \o HeaderRows

StartRows == {1, 2}

NoResult == [returned |-> FALSE, buffer_none |-> TRUE, buffer |-> <<>>, codes |-> {}]

----------------------------------------------------------------------------
(* process_excel_st *)

NormalizeInit ==
    /\ \/ \E k \in 1..MaxRow : \E pick \in [1..k -> 1..Len(InputRows)] :
             uploaded_file = [has_sheet |-> TRUE,
                              rows |-> [i \in 1..k |-> InputRows[pick[i]]]]
       \/ uploaded_file = [has_sheet |-> FALSE, rows |-> <<>>]
    /\ start_row \in StartRows
    /\ sheet = <<>>
    /\ pc = "load"
    /\ bird_species_found_at_row = 0
    /\ end_row_for_processing = 0
    /\ end_row_for_deletion = 0
    /\ result = NoResult
    /\ ComposeIdle
    /\ SanitizeIdle
    /\ AppIdle

\* lines 86-95, sheet present
LoadWorkbook ==
    /\ pc = "load"
    /\ uploaded_file.has_sheet
    /\ sheet' = uploaded_file.rows
    /\ pc' = "find"
    /\ UNCHANGED <<uploaded_file, start_row, bird_species_found_at_row,
                   end_row_for_processing, end_row_for_deletion, result>>
    /\ UNCHANGED outsideNormalize

\* lines 90-93: return None, None
SheetNotFound ==
    /\ pc = "load"
    /\ ~uploaded_file.has_sheet
    /\ result' = [returned |-> TRUE, buffer_none |-> TRUE, buffer |-> <<>>, codes |-> {}]
    /\ pc' = "done"
    /\ UNCHANGED <<uploaded_file, start_row, sheet, bird_species_found_at_row,
                   end_row_for_processing, end_row_for_deletion>>
    /\ UNCHANGED outsideNormalize

\* lines 99-123
FindBirdSpecies ==
    /\ pc = "find"
    /\ LET found == FirstBirdSpeciesRow(sheet, start_row)
       IN  /\ bird_species_found_at_row' = found
           /\ IF found # 0 /\ PositionIdBlank(cell(sheet, found, 8))
              THEN /\ end_row_for_processing' = found - 1
                   /\ end_row_for_deletion' = found
              ELSE /\ end_row_for_processing' = max_row(sheet)
                   /\ end_row_for_deletion' = max_row(sheet)
    /\ pc' = "fill"
    /\ UNCHANGED <<uploaded_file, start_row, sheet, result>>
    /\ UNCHANGED outsideNormalize

\* lines 125-132: nothing to fill, save and return (bytes, set())
SkipProcessing ==
    /\ pc = "fill"
    /\ end_row_for_processing < start_row
    /\ result' = [returned |-> TRUE, buffer_none |-> FALSE, buffer |-> sheet, codes |-> {}]
    /\ pc' = "done"
    /\ UNCHANGED <<uploaded_file, start_row, sheet, bird_species_found_at_row,
                   end_row_for_processing, end_row_for_deletion>>
    /\ UNCHANGED outsideNormalize

\* lines 134-144
FillBlanks ==
    /\ pc = "fill"
    /\ end_row_for_processing >= start_row
    /\ sheet' = FillColumns(sheet, start_row + 1, end_row_for_processing)
    /\ pc' = "special"
    /\ UNCHANGED <<uploaded_file, start_row, bird_species_found_at_row,
                   end_row_for_processing, end_row_for_deletion, result>>
    /\ UNCHANGED outsideNormalize

\* lines 146-154
SpecialFill ==
    /\ pc = "special"
    /\ sheet' = SpecialFillRows(sheet, start_row + 1, end_row_for_processing)
    /\ pc' = "conditional"
    /\ UNCHANGED <<uploaded_file, start_row, bird_species_found_at_row,
                   end_row_for_processing, end_row_for_deletion, result>>
    /\ UNCHANGED outsideNormalize

\* lines 170-188
ConditionalFill ==
    /\ pc = "conditional"
    /\ sheet' = ConditionalFillRows(sheet, start_row + 1, end_row_for_processing)
    /\ pc' = "delete"
    /\ UNCHANGED <<uploaded_file, start_row, bird_species_found_at_row,
                   end_row_for_processing, end_row_for_deletion, result>>
    /\ UNCHANGED outsideNormalize

\* lines 190-201: delete, save and return (bytes, valid_values)
DeleteRows ==
    /\ pc = "delete"
    /\ LET amount_to_delete == max_row(sheet) - end_row_for_deletion + 1
           saved == IF max_row(sheet) >= end_row_for_deletion /\ amount_to_delete > 0
                    THEN delete_rows(sheet, end_row_for_deletion, amount_to_delete)
                    ELSE sheet
       IN  /\ sheet' = saved
           /\ result' = [returned |-> TRUE, buffer_none |-> FALSE, buffer |-> saved,
                         codes |-> valid_values]
    /\ pc' = "done"
    /\ UNCHANGED <<uploaded_file, start_row, bird_species_found_at_row,
                   end_row_for_processing, end_row_for_deletion>>
    /\ UNCHANGED outsideNormalize

NormalizeNext ==
    \/ LoadWorkbook
    \/ SheetNotFound
    \/ FindBirdSpecies
    \/ SkipProcessing
    \/ FillBlanks
    \/ SpecialFill
    \/ ConditionalFill
    \/ DeleteRows

SpecNormalize == NormalizeInit /\ [][NormalizeNext]_vars

----------------------------------------------------------------------------
(* Strings of the composer.  A character is a one-character string; "BEL"   *)
(* stands for the control character 0x07, "NBSP" for U+00A0 and "E_ACUTE"  *)
(* for U+00E9.                                                             *)

AsciiOrder ==
    <<"BEL", "\t", "\n", " ", "!", "\"", "#", "$", "%", "&", "'", "(", ")", "*",
      "+", ",", "-", ".", "/", "0", "1", "2", "3", "4", "5", "6", "7", "8",
      "9", ":", ";", "<", "=", ">", "?", "@", "A", "B", "C", "D", "E", "F",
      "G", "H", "I", "J", "K", "L", "M", "N", "O", "P", "Q", "R", "S", "T",
      "U", "V", "W", "X", "Y", "Z", "[", "\\", "]", "^", "_", "a", "b",
      "c", "d", "e", "f", "g", "h", "i", "j", "k", "l", "m", "n", "o", "p",
      "q", "r", "s", "t", "u", "v", "w", "x", "y", "z", "{", "|", "}", "~">>

IsAscii(ch) == \E i \in 1..Len(AsciiOrder) : AsciiOrder[i] = ch

\* code point order; the characters outside ASCII come after all of ASCII
Ord(ch) ==
    IF IsAscii(ch) THEN CHOOSE i \in 1..Len(AsciiOrder) : AsciiOrder[i] = ch
    ELSE Len(AsciiOrder) + 1

UpperCase == <<"A", "B", "C", "D", "E", "F", "G", "H", "I", "J", "K", "L", "M",
               "N", "O", "P", "Q", "R", "S", "T", "U", "V", "W", "X", "Y", "Z">>

LowerCase == <<"a", "b", "c", "d", "e", "f", "g", "h", "i", "j", "k", "l", "m",
               "n", "o", "p", "q", "r", "s", "t", "u", "v", "w", "x", "y", "z">>

LowerChar(ch) ==
    IF \E i \in 1..26 : UpperCase[i] = ch
    THEN LowerCase[CHOOSE i \in 1..26 : UpperCase[i] = ch]
    ELSE ch

UpperChar(ch) ==
    IF \E i \in 1..26 : LowerCase[i] = ch
    THEN UpperCase[CHOOSE i \in 1..26 : LowerCase[i] = ch]
    ELSE ch

\* str.lower()
lower(s) == [i \in 1..Len(s) |-> LowerChar(s[i])]

\* str.upper()
upper(s) == [i \in 1..Len(s) |-> UpperChar(s[i])]

\* s < t for Python strings
RECURSIVE StrLess(_, _)
StrLess(s, t) ==
    IF t = <<>> THEN FALSE
    ELSE IF s = <<>> THEN TRUE
    ELSE IF Head(s) = Head(t) THEN StrLess(Tail(s), Tail(t))
    ELSE Ord(Head(s)) < Ord(Head(t))

NanText == <<"n", "a", "n">>

NaText == <<"n", "/", "a">>

\* Series.astype(str) on one value
astype_str(v) ==
    CASE v.t = "str" -> v.s
      [] v.t = "int" -> IF v.n < 0 THEN <<"-">> \o NatToStr(0 - v.n) ELSE NatToStr(v.n)
      [] OTHER       -> NanText

\* Series.replace("nan", "n/a") on one value
replace_nan(s) == IF s = NanText THEN NaText ELSE s

\* lines 225-235
StandardizeRow(r) ==
    [form_desc  |-> astype_str(r.form_desc),
     section    |-> astype_str(r.section),
     subsection |-> replace_nan(astype_str(r.subsection)),
     field_id   |-> astype_str(r.field_id),
     field_desc |-> astype_str(r.field_desc),
     form_id    |-> astype_str(r.form_id),
     field_type |-> astype_str(r.field_type),
     option     |-> replace_nan(astype_str(r.option)),
     mandatory  |-> astype_str(r.mandatory),
     position   |-> r.position]

Standardize(rows) == [i \in 1..Len(rows) |-> StandardizeRow(rows[i])]

----------------------------------------------------------------------------
(* Grouping and sorting; a group is the sequence of its row labels.        *)

\* sort_values(): seq ascending by val, the function from the entries to
\* their sort keys; equal keys keep their order when ties = "stable" and
\* come out in the opposite order otherwise
sort_values(seq, val, ties) ==
    LET before(j, i) ==
            \/ val[seq[j]] < val[seq[i]]
            \/ /\ val[seq[j]] = val[seq[i]]
               /\ IF ties = "stable" THEN j < i ELSE j > i
        ranked == {<<1 + Cardinality({j \in 1..Len(seq) : before(j, i)}), i>> :
                        i \in 1..Len(seq)}
    IN  [k \in 1..Len(seq) |-> seq[(CHOOSE p \in ranked : p[1] = k)[2]]]

\* the keys of a groupby, in the sorted order groupby yields them
RECURSIVE SortedKeys(_)
SortedKeys(keys) ==
    IF keys = {} THEN <<>>
    ELSE LET k == CHOOSE a \in keys : \A b \in keys : a = b \/ StrLess(a, b)
         IN  <<k>> \o SortedKeys(keys \ {k})

Minimum(S) == CHOOSE a \in S : \A b \in S : a <= b

\* group.groupby(group[column])[Position ID].min().sort_values().index
KeysByMinPosition(d, group, column, ties) ==
    LET keyset == {d[group[i]][column] : i \in 1..Len(group)}
        least == [k \in keyset |->
                    Minimum({d[group[i]].position :
                                i \in {j \in 1..Len(group) : d[group[j]][column] = k}})]
    IN  sort_values(SortedKeys(keyset), least, ties)

\* drop_duplicates(subset=["Field ID"]), which keeps the first occurrence
drop_duplicates(d, group) ==
    LET kept == SelectSeq([k \in 1..Len(group) |-> k],
                          LAMBDA k : \A j \in 1..(k - 1) :
                                        d[group[j]].field_id # d[group[k]].field_id)
    IN  [k \in 1..Len(kept) |-> group[kept[k]]]

\* Series.unique(): the distinct values in order of first appearance
unique(seq) ==
    LET kept == SelectSeq([k \in 1..Len(seq) |-> k],
                          LAMBDA k : \A j \in 1..(k - 1) : seq[j] # seq[k])
    IN  [k \in 1..Len(kept) |-> seq[kept[k]]]

----------------------------------------------------------------------------
(* safe_text_for_docx (lines 56-76) *)

\* line 67: s.encode('ascii', 'ignore').decode('ascii')
ascii_ignore(s) == SelectSeq(s, IsAscii)

HttpOpen == <<"{", "h", "t", "t", "p">>

\* line 71: re.sub(r'\{http.*?\}', '', s, flags=re.IGNORECASE); the dot does
\* not match a newline
RECURSIVE remove_http(_)
remove_http(s) ==
    IF s = <<>> THEN <<>>
    ELSE LET closers == {j \in 6..Len(s) : s[j] = "}"}
             j == Minimum(closers)
         IN  IF /\ Len(s) >= 6
                /\ lower(SubSeq(s, 1, 5)) = HttpOpen
                /\ closers # {}
                /\ \A k \in 6..(j - 1) : s[k] # "\n"
             THEN remove_http(SubSeq(s, j + 1, Len(s)))
             ELSE <<Head(s)>> \o remove_http(Tail(s))

\* line 72: re.sub(r'<[^>]+>', '', s)
RECURSIVE remove_tags(_)
remove_tags(s) ==
    IF s = <<>> THEN <<>>
    ELSE LET closers == {j \in 2..Len(s) : s[j] = ">"}
             j == Minimum(closers)
         IN  IF Head(s) = "<" /\ closers # {} /\ j >= 3
             THEN remove_tags(SubSeq(s, j + 1, Len(s)))
             ELSE <<Head(s)>> \o remove_tags(Tail(s))

\* str.replace(old, new)
RECURSIVE replace(_, _, _)
replace(s, old, new) ==
    IF Len(s) < Len(old) THEN s
    ELSE IF SubSeq(s, 1, Len(old)) = old
         THEN new \o replace(SubSeq(s, Len(old) + 1, Len(s)), old, new)
         ELSE <<Head(s)>> \o replace(Tail(s), old, new)

\* line 73
decode_entities(s) ==
    replace(replace(replace(s, <<"&", "l", "t", ";">>, <<"<">>),
                    <<"&", "g", "t", ";">>, <<">">>),
            <<"&", "a", "m", "p", ";">>, <<"&">>)

safe_text_for_docx(value) ==
    IF value.t = "none" THEN <<>>
    ELSE strip(replace(decode_entities(remove_tags(remove_http(ascii_ignore(str(value))))),
                       <<"NBSP">>, <<" ">>))

\* the pieces the arguments of safe_text_for_docx are made of: letters,
\* whitespace, control and non-ASCII characters, tags, entities and
\* {http...} fragments, whole and broken
Fragments ==
    <<<<"a">>, <<" ">>, <<"\t">>, <<"\n">>, <<"BEL">>, <<"NBSP">>, <<"E_ACUTE">>,
      <<"<">>, <<">">>, <<"<", "b", ">">>,
      <<"&", "l", "t", ";">>, <<"&", "g", "t", ";">>, <<"&", "a", "m", "p", ";">>,
      <<"l", "t", ";">>,
      <<"{", "H", "t", "t", "p", ":", "x", "}">>, <<"{", "h", "t", "t", "p">>, <<"}">>>>

RECURSIVE Concat(_)
Concat(pieces) ==
    IF pieces = <<>> THEN <<>> ELSE Head(pieces) \o Concat(Tail(pieces))

SanitizeInit ==
    /\ \/ \E k \in 0..MaxFragments : \E pick \in [1..k -> 1..Len(Fragments)] :
             docx_value = StrVal(Concat([i \in 1..k |-> Fragments[pick[i]]]))
       \/ docx_value = None
       \/ \E n \in 0..12 : docx_value = IntVal(n)
    /\ docx_text = <<>>
    /\ tpc = "call"
    /\ NormalizeIdle
    /\ ComposeIdle
    /\ AppIdle

\* lines 61-76: the call returns
Sanitize ==
    /\ tpc = "call"
    /\ docx_text' = safe_text_for_docx(docx_value)
    /\ tpc' = "returned"
    /\ UNCHANGED docx_value
    /\ UNCHANGED outsideSanitize

SanitizeNext == Sanitize

SpecSanitize == SanitizeInit /\ [][SanitizeNext]_vars

----------------------------------------------------------------------------
(* create_forms_from_excel_st (lines 213-369) *)

LargeOptionCount == 50

\* a paragraph of a document: kind, text, and the section, subsection,
\* Field ID and row label of the loop iteration that added it
Paragraph(kind, text, section, subsection, field_id, src) ==
    [kind |-> kind, text |-> text, section |-> section, subsection |-> subsection,
     field_id |-> field_id, src |-> src]

\* lines 295-299
options_for_field(d, field_id) ==
    LET labels == SelectSeq([i \in 1..Len(d) |-> i],
                            LAMBDA i : /\ d[i].field_id = field_id
                                       /\ lower(d[i].option) # NaText)
    IN  unique([k \in 1..Len(labels) |-> d[labels[k]].option])

\* line 304: st.session_state.get(f'config_choice_{field_id}', False)
config_choice(state, field_id) ==
    IF field_id \in DOMAIN state THEN state[field_id] ELSE FALSE

\* lines 310-314 and 327-331
OptionBullets(options, section, subsection, field_id, src) ==
    [k \in 1..Len(options) |->
        Paragraph("option", safe_text_for_docx(StrVal(options[k])),
                  section, subsection, field_id, src)]

\* the rule of line 302 with >= in place of >
ShowsPlaceholder_from_50(options, state, field_id) ==
    Len(options) >= LargeOptionCount /\ ~config_choice(state, field_id)

\* lines 302-321: the skip placeholder replaces the options
ShowsPlaceholder(options, state, field_id) ==
    Len(options) > LargeOptionCount /\ ~config_choice(state, field_id)

\* lines 276-342: the paragraphs of one field
RenderField(d, src, section, subsection, state) ==
    LET row == d[src]
        field_id == row.field_id
        is_mandatory == upper(strip(row.mandatory)) = <<"T">>
        safe_desc == safe_text_for_docx(StrVal(row.field_desc))
        display_field_desc == IF is_mandatory THEN safe_desc \o <<"*">> ELSE safe_desc
        safe_field_id == safe_text_for_docx(StrVal(field_id))
        tag == <<"[">> \o row.field_type \o <<";", " ">> \o safe_field_id \o <<"]">>
        P(kind, text) == Paragraph(kind, text, section, subsection, field_id, src)
        options == options_for_field(d, field_id)
    IN  IF row.field_type = DropdownSelect
        THEN <<P("field", display_field_desc \o <<":", " ">> \o tag)>> \o
             (IF options = <<>>
              THEN <<P("no_options", <<>>)>>
              ELSE IF ShowsPlaceholder(options, state, field_id)
                   THEN <<P("options_label", <<>>), P("skipped", <<>>)>>
                   ELSE <<P("options_label", <<>>)>> \o
                        OptionBullets(options, section, subsection, field_id, src))
        ELSE <<P("field", display_field_desc \o <<":", " ">> \o tag \o <<" ">>)>>

RECURSIVE RenderFields(_, _, _, _, _)
RenderFields(d, fields, section, subsection, state) ==
    IF fields = <<>> THEN <<>>
    ELSE RenderField(d, Head(fields), section, subsection, state) \o
         RenderFields(d, Tail(fields), section, subsection, state)

\* line 257
IsUnnamed(subsection_header) == lower(strip(subsection_header)) \in {NaText, <<>>}

\* lines 259-265
subsection_group(d, section_group, subsection_header) ==
    IF ~IsUnnamed(subsection_header)
    THEN SelectSeq(section_group, LAMBDA i : d[i].subsection = subsection_header)
    ELSE SelectSeq(section_group,
                   LAMBDA i : \/ lower(strip(d[i].subsection)) = NaText
                              \/ strip(d[i].subsection) = <<>>)

\* lines 272-273 without the sort
fields_of_subsection_unsorted(d, group, ties) ==
    drop_duplicates(d, group)

\* lines 272-273
fields_of_subsection(d, group, ties) ==
    drop_duplicates(d, sort_values(group, [i \in 1..Len(d) |-> d[i].position], ties))

\* lines 256-343: one pass of the subsection loop
RenderSubsection(d, section_group, section, subsection_header, state, ties) ==
    LET group == subsection_group(d, section_group, subsection_header)
        heading == IF ~IsUnnamed(subsection_header)
                   THEN <<Paragraph("heading2", subsection_header, section,
                                    subsection_header, <<>>, 0)>>
                   ELSE <<>>
    IN  IF group = <<>> THEN <<>>
        ELSE heading \o
             RenderFields(d, fields_of_subsection(d, group, ties), section,
                          subsection_header, state) \o
             <<Paragraph("blank", <<>>, section, subsection_header, <<>>, 0)>>

RECURSIVE RenderSubsections(_, _, _, _, _, _)
RenderSubsections(d, section_group, section, headers, state, ties) ==
    IF headers = <<>> THEN <<>>
    ELSE RenderSubsection(d, section_group, section, Head(headers), state, ties) \o
         RenderSubsections(d, section_group, section, Tail(headers), state, ties)

\* lines 249-343: one pass of the section loop
RenderSection(d, form_group, section, state, ties) ==
    LET section_group == SelectSeq(form_group, LAMBDA i : d[i].section = section)
        unique_subsections ==
            KeysByMinPosition(d, section_group, "subsection", ties)
    IN  <<Paragraph("heading1", section, section, <<>>, <<>>, 0)>> \o
        RenderSubsections(d, section_group, section, unique_subsections, state, ties)

RECURSIVE RenderSections(_, _, _, _, _)
RenderSections(d, form_group, sections, state, ties) ==
    IF sections = <<>> THEN <<>>
    ELSE RenderSection(d, form_group, Head(sections), state, ties) \o
         RenderSections(d, form_group, Tail(sections), state, ties)

isalnum(ch) ==
    \/ IsDigit(ch)
    \/ \E i \in 1..26 : ch \in {UpperCase[i], LowerCase[i]}
    \/ ch = "E_ACUTE"

\* lines 351-352
clean_name(s) ==
    replace(strip(SelectSeq(s, LAMBDA ch : isalnum(ch) \/ ch \in Whitespace)),
            <<" ">>, <<"_">>)

\* line 238; the date of the run
today_date_str == <<"2", "0", "2", "6", "1", "1", "0", "4">>

\* lines 241-355: the document of one (Form Description, Form ID) group
RenderForm(d, form_desc, form_id, state, ties) ==
    LET form_group == SelectSeq([i \in 1..Len(d) |-> i],
                                LAMBDA i : d[i].form_desc = form_desc /\ d[i].form_id = form_id)
        unique_sections ==
            KeysByMinPosition(d, form_group, "section", ties)
    IN  [filename |-> clean_name(form_id) \o <<"_">> \o today_date_str \o <<"_">> \o
                      clean_name(form_desc) \o
                      <<"_", "f", "o", "r", "m", ".", "d", "o", "c", "x">>,
         form_desc |-> form_desc,
         form_id |-> form_id,
         paragraphs |->
            <<Paragraph("heading0",
                        <<"F", "o", "r", "m", ":", " ">> \o form_desc \o <<" ", "[">> \o
                        form_id \o <<"]">>, <<>>, <<>>, <<>>, 0)>> \o
            RenderSections(d, form_group, unique_sections, state, ties)]

\* the groups of df.groupby(["Form Description", "Form ID"]) in key order
RECURSIVE SortedForms(_)
SortedForms(keys) ==
    IF keys = {} THEN <<>>
    ELSE LET k == CHOOSE a \in keys : \A b \in keys :
                     \/ a = b
                     \/ StrLess(a[1], b[1])
                     \/ (a[1] = b[1] /\ StrLess(a[2], b[2]))
         IN  <<k>> \o SortedForms(keys \ {k})

\* lines 237-362: generated_files
GeneratedFiles(d, state, ties) ==
    LET forms == SortedForms({<<d[i].form_desc, d[i].form_id>> : i \in 1..Len(d)})
    IN  [k \in 1..Len(forms) |-> RenderForm(d, forms[k][1], forms[k][2], state, ties)]

----------------------------------------------------------------------------
(* Inputs of create_forms_from_excel_st *)

TextType == <<"T", "e", "x", "t">>

TableRow(form_desc, form_id, section, subsection, position, field_id, field_desc, field_type, mandatory, option) ==
    [form_desc |-> StrVal(form_desc), form_id |-> IntVal(form_id),
     section |-> StrVal(section), subsection |-> subsection, position |-> position,
     field_id |-> IntVal(field_id), field_desc |-> StrVal(field_desc),
     field_type |-> StrVal(field_type), mandatory |-> mandatory, option |-> option]

Sub == StrVal(<<"S", "u", "b">>)

OptX == StrVal(<<"X">>)

OptY == StrVal(<<"Y">>)

TableRows ==
    <<TableRow(<<"A">>, 1, <<"S">>, Sub, 1, 10, <<"p">>, DropdownSelect, StrVal(<<"T">>), OptX),
      TableRow(<<"A">>, 1, <<"S">>, Sub, 2, 10, <<"q">>, DropdownSelect, None, OptY),
      TableRow(<<"A">>, 1, <<"S">>, Sub, 1, 10, <<"q">>, DropdownSelect, None, OptY),
      TableRow(<<"A">>, 1, <<"S">>, Sub, 1, 11, <<"r">>, TextType, StrVal(<<"t">>), None),
      TableRow(<<"A">>, 1, <<"S">>, None, 1, 10, <<"p">>, DropdownSelect, None, OptX),
      TableRow(<<"A">>, 1, <<"S">>, StrVal(<<"N", "/", "a">>), 2, 10, <<"q">>,
               DropdownSelect, None, StrVal(<<"N", "/", "a">>)),
      TableRow(<<"A">>, 1, <<"S">>, StrVal(<<" ">>), 2, 11, <<"r">>, TextType, None, None),
      TableRow(<<"A">>, 1, <<"S">>, StrVal(<<"T", "a", "b">>), 1, 11, <<"r">>, TextType,
               None, None),
      TableRow(<<"A">>, 1, <<"T">>, Sub, 1, 10, <<"p">>, DropdownSelect, None, OptX),
      TableRow(<<"A">>, 1, <<"T">>, None, 2, 11, <<"r">>, TextType, None, OptY),
      TableRow(<<"A">>, 1, <<"R">>, Sub, 2, 11, <<"r">>, TextType, None, None),
      TableRow(<<"B">>, 2, <<"S">>, Sub, 1, 10, <<"p">>, DropdownSelect, None, OptX)>>

\* a table with two dropdown fields: field 20 with the options 1..n, field
\* 21 with the options 1..n+1; extra rows repeat an option and leave one out
OptionRow(field_id, k) ==
    TableRow(<<"A">>, 1, <<"S">>, Sub, k, field_id, <<"d">>, DropdownSelect, None,
             IF k = 0 THEN None ELSE IntVal(k))

LargeTable(n, repeat) ==
    [k \in 1..n |-> OptionRow(20, k)] \o
    [k \in 1..(n + 1) |-> OptionRow(21, k)] \o
    (IF repeat THEN <<OptionRow(20, 1), OptionRow(21, 1)>> ELSE <<>>) \o
    <<OptionRow(20, 0)>>

\* the config_choice_ keys of st.session_state and their values
ConfigStates ==
    UNION {[ids -> BOOLEAN] : ids \in SUBSET {NatToStr(20), NatToStr(21)}}

NoFiles == [returned |-> FALSE, none |-> TRUE, files |-> <<>>]

ComposeInit ==
    /\ NormalizeIdle
    /\ SanitizeIdle
    /\ AppIdle
    /\ cpc = "call"
    /\ generated_files = NoFiles
    /\ \/ /\ \E k \in 0..MaxTableRows : \E pick \in [1..k -> 1..Len(TableRows)] :
               df = [has_columns |-> TRUE, rows |-> [i \in 1..k |-> TableRows[pick[i]]]]
          /\ session_state = [ids \in {} |-> FALSE]
          /\ sort_ties \in {"stable", "reversed"}
       \/ /\ \E n \in 0..MaxOptions : \E repeat \in BOOLEAN :
               df = [has_columns |-> TRUE, rows |-> LargeTable(n, repeat)]
          /\ session_state \in ConfigStates
          /\ sort_ties = "stable"
       \/ /\ df = [has_columns |-> FALSE, rows |-> <<>>]
          /\ session_state = [ids \in {} |-> FALSE]
          /\ sort_ties = "stable"

\* lines 218-362: the columns of df are standardized in place and the call
\* returns generated_files
CreateForms ==
    /\ cpc = "call"
    /\ df.has_columns
    /\ LET d == Standardize(df.rows)
       IN  /\ df' = [df EXCEPT !.rows = d]
           /\ generated_files' = [returned |-> TRUE, none |-> FALSE,
                                  files |-> GeneratedFiles(d, session_state, sort_ties)]
    /\ cpc' = "returned"
    /\ UNCHANGED <<session_state, sort_ties>>
    /\ UNCHANGED outsideCompose

\* lines 225-235 and 367-369: a column is missing, the KeyError is caught and
\* the call returns None
CreateFormsFails ==
    /\ cpc = "call"
    /\ ~df.has_columns
    /\ generated_files' = [returned |-> TRUE, none |-> TRUE, files |-> <<>>]
    /\ cpc' = "returned"
    /\ UNCHANGED <<df, session_state, sort_ties>>
    /\ UNCHANGED outsideCompose

ComposeNext == CreateForms \/ CreateFormsFails

SpecCompose == ComposeInit /\ [][ComposeNext]_vars

----------------------------------------------------------------------------
(* main_app (lines 384-675): the script runs from top to bottom on every   *)
(* user event and on every st.rerun(); one action per event, each with the *)
(* script run it starts.                                                   *)

PyNone == "None"

\* the workbooks a user can select, by what the functions make of them:
\* has_sheet, process_excel_st returns a buffer (lines 86-203); columns, the
\* analysis of lines 500-522 raises nothing; large, its large_dropdowns;
\* forms, what create_forms_from_excel_st returns for the buffer
Workbook(name, has_sheet, columns, large, fails, forms) ==
    [name |-> name, has_sheet |-> has_sheet, columns |-> columns, large |-> large,
     forms |-> [none |-> fails, files |-> forms]]

Workbooks ==
    {Workbook("plain", TRUE, TRUE, <<>>, FALSE, <<"plain.docx">>),
     Workbook("one", TRUE, TRUE, <<"20">>, FALSE, <<"one.docx">>),
     Workbook("two", TRUE, TRUE, <<"20", "21">>, FALSE, <<"two.docx">>),
     Workbook("nosheet", FALSE, FALSE, <<>>, TRUE, <<>>),
     Workbook("nocolumns", TRUE, FALSE, <<>>, TRUE, <<>>),
     Workbook("noforms", TRUE, TRUE, <<>>, TRUE, <<>>),
     Workbook("empty", TRUE, TRUE, <<>>, FALSE, <<>>)}

WorkbookOf(name) == CHOOSE w \in Workbooks : w.name = name

\* what process_excel_st returns first: the name stands for the buffer
processed_bytes(name) == IF WorkbookOf(name).has_sheet THEN name ELSE PyNone

NoChoices == [id \in {} |-> FALSE]

\* generated_files is None
NoneFiles == [none |-> TRUE, files |-> <<>>]

\* st.session_state: has holds the keys present, config_choice the entries
\* config_choice_<Field ID>; the field of an absent key holds its default
EmptySession ==
    [has |-> {}, processed_excel_bytes |-> PyNone, valid_values |-> "set()",
     config_done |-> FALSE, large_dropdowns |-> <<>>, generated_files |-> NoneFiles,
     file_processed |-> FALSE, select_all_large_options |-> FALSE,
     config_choice |-> NoChoices]

\* st.session_state[key] = v
Set(ss, key, v) == [ss EXCEPT !.has = @ \cup {key}, ![key] = v]

\* st.session_state.get(key, default)
Get(ss, key, default) == IF key \in ss.has THEN ss[key] ELSE default

\* line 386
keys_to_delete ==
    {"processed_excel_bytes", "valid_values", "config_done", "large_dropdowns",
     "generated_files", "file_processed", "select_all_large_options"}

\* lines 384-390 only: the config_choice_ entries stay
reset_app_state_static_keys(ss) ==
    [EmptySession EXCEPT !.has = ss.has \ keys_to_delete,
                         !.config_choice = ss.config_choice]

\* lines 384-395
reset_app_state(ss) ==
    [EmptySession EXCEPT !.has = ss.has \ keys_to_delete]

\* lines 398-407
toggle_all_options(ss) ==
    LET select_all == ss.select_all_large_options
        large == {ss.large_dropdowns[i] : i \in 1..Len(ss.large_dropdowns)}
    IN  IF "large_dropdowns" \in ss.has /\ large # {}
        THEN [ss EXCEPT !.config_choice =
                 [id \in DOMAIN @ \cup large |-> IF id \in large THEN select_all ELSE @[id]]]
        ELSE ss

\* lines 654-675: the defaults of the keys that are absent
InitSession(ss) ==
    [ss EXCEPT !.has = @ \cup keys_to_delete]

\* the widget keys written since the last reset_app_state
NoHistory ==
    [calls |-> 0, fresh |-> {}, normalized |-> "none", failed_once |-> FALSE,
     dropped |-> FALSE]

\* a page on which nothing is rendered yet
NoPage ==
    [preprocess_button |-> FALSE, configure |-> FALSE, confirm_button |-> FALSE,
     generate |-> FALSE, normalized |-> FALSE, reset |-> FALSE, composed |-> FALSE,
     offered |-> FALSE, buffer |-> PyNone, config_done |-> FALSE]

\* the history once reset_app_state has run
AfterReset(h, ss) ==
    [h EXCEPT !.calls = 0, !.fresh = {},
              !.dropped = @ \/ (\E id \in DOMAIN ss.config_choice : ss.config_choice[id])]

\* lines 654-675 and the start of main_app
StartRun(ss, h) ==
    [ss |-> InitSession(ss), rerun |-> FALSE, page |-> NoPage,
     history |-> IF "select_all_large_options" \in ss.has THEN h
                 ELSE [h EXCEPT !.fresh = @ \cup {"select_all_large_options"}]]

\* line 484
PreprocessPhase(ss, uploaded) ==
    uploaded # PyNone /\ Get(ss, "processed_excel_bytes", PyNone) = PyNone

\* lines 482-530
Phase1(r, uploaded, button) ==
    IF ~PreprocessPhase(r.ss, uploaded) THEN r
    ELSE IF button # "btn_preprocess" THEN [r EXCEPT !.page.preprocess_button = TRUE]
    ELSE LET cleared == reset_app_state(r.ss)
             bytes == processed_bytes(uploaded)
             stored == Set(Set(cleared, "processed_excel_bytes", bytes),
                           "valid_values", "codes")
             h == AfterReset(r.history, r.ss)
             shown == [r.page EXCEPT !.preprocess_button = TRUE, !.reset = TRUE,
                                     !.normalized = TRUE]
         IN  IF bytes = PyNone
             THEN [r EXCEPT !.ss = cleared, !.page = shown,
                            !.history = [h EXCEPT !.normalized = "failed",
                                                  !.failed_once = TRUE]]
             ELSE IF WorkbookOf(uploaded).columns
                  THEN [r EXCEPT !.ss = Set(Set(stored, "large_dropdowns",
                                                WorkbookOf(uploaded).large),
                                            "file_processed", TRUE),
                                 !.rerun = TRUE, !.page = shown,
                                 !.history = [h EXCEPT !.normalized = "ok"]]
                  ELSE [r EXCEPT !.ss = Set(stored, "processed_excel_bytes", PyNone),
                                 !.page = shown,
                                 !.history = [h EXCEPT !.normalized = "ok"]]

\* line 533 without the test of the buffer
ConfigurePhase_without_buffer(ss) ==
    ~Get(ss, "config_done", FALSE)

\* line 533
ConfigurePhase(ss) ==
    Get(ss, "processed_excel_bytes", PyNone) # PyNone /\ ~Get(ss, "config_done", FALSE)

\* lines 532-577
Phase2(r, button) ==
    IF r.rerun \/ ~ConfigurePhase(r.ss) THEN r
    ELSE LET large_dropdowns == r.ss.large_dropdowns
             large == {large_dropdowns[i] : i \in 1..Len(large_dropdowns)}
             seen == [r.page EXCEPT !.configure = TRUE,
                                    !.buffer = Get(r.ss, "processed_excel_bytes", PyNone)]
             drawn == [r.ss EXCEPT !.config_choice =
                          [id \in DOMAIN @ \cup large |->
                              IF id \in DOMAIN @ THEN @[id]
                              ELSE Get(r.ss, "select_all_large_options", FALSE)]]
             h == [r.history EXCEPT !.fresh = @ \cup (large \ DOMAIN r.ss.config_choice)]
         IN  IF large_dropdowns = <<>>
             THEN [r EXCEPT !.ss = Set(r.ss, "config_done", TRUE), !.rerun = TRUE,
                            !.page = seen]
             ELSE IF button = "btn_confirm"
                  THEN [r EXCEPT !.ss = Set(drawn, "config_done", TRUE), !.rerun = TRUE,
                                 !.page = [seen EXCEPT !.confirm_button = TRUE],
                                 !.history = h]
                  ELSE [r EXCEPT !.ss = drawn,
                                 !.page = [seen EXCEPT !.confirm_button = TRUE],
                                 !.history = h]

\* line 580
GeneratePhase(ss) ==
    Get(ss, "config_done", FALSE) /\ Get(ss, "processed_excel_bytes", PyNone) # PyNone

\* what create_forms_from_excel_st returns for the stored buffer
generated_forms(ss) == WorkbookOf(ss.processed_excel_bytes).forms

\* line 599 without the replacement of None
all_generated_files_or_none(forms) == forms

\* line 599
all_generated_files(forms) ==
    IF ~forms.none /\ forms.files # <<>> THEN forms
    ELSE [none |-> FALSE, files |-> <<>>]

\* lines 579-651
Phase3(r, button) ==
    IF r.rerun \/ ~GeneratePhase(r.ss) THEN r
    ELSE LET calls == Get(r.ss, "generated_files", NoneFiles).none  \* line 585
             ss == IF calls
                   THEN Set(r.ss, "generated_files",
                            all_generated_files(generated_forms(r.ss)))
                   ELSE r.ss
             files == Get(ss, "generated_files", NoneFiles)
             seen == [r.page EXCEPT !.generate = TRUE, !.composed = calls,
                                    !.offered = ~files.none /\ files.files # <<>>,
                                    !.buffer = r.ss.processed_excel_bytes,
                                    !.config_done = Get(r.ss, "config_done", FALSE)]
             h == IF calls /\ r.history.calls < MaxCalls
                  THEN [r.history EXCEPT !.calls = @ + 1]
                  ELSE r.history
         IN  IF button = "btn_start_over"
             THEN [r EXCEPT !.ss = reset_app_state(ss), !.rerun = TRUE,
                            !.page = [seen EXCEPT !.reset = TRUE],
                            !.history = AfterReset(h, ss)]
             ELSE [r EXCEPT !.ss = ss, !.page = seen, !.history = h]

\* one run of the script with the button that was pressed, if any
ScriptRun(ss, h, uploaded, button) ==
    Phase3(Phase2(Phase1(StartRun(ss, h), uploaded, button), button), button)

\* the state after the script run
Ran(r) ==
    /\ st_session_state' = r.ss
    /\ rerun' = r.rerun
    /\ page' = r.page
    /\ history' = r.history

\* a session starts with an empty st.session_state and a first script run
AppInit ==
    /\ NormalizeIdle
    /\ ComposeIdle
    /\ SanitizeIdle
    /\ file_uploader = PyNone
    /\ st_session_state = EmptySession
    /\ rerun = TRUE
    /\ page = NoPage
    /\ history = NoHistory

AppUnchanged == UNCHANGED <<normalizeVars, composeVars, sanitizeVars>>

\* a script run: the one st.rerun() asked for, or one started by an event
\* that changes nothing of the above (a download, a new folder name)
Rerun ==
    /\ Ran(ScriptRun(st_session_state, history, file_uploader, "none"))
    /\ UNCHANGED file_uploader
    /\ AppUnchanged

\* lines 473-478: the user selects, replaces or removes the file
SelectFile ==
    /\ ~rerun
    /\ \E name \in {w.name : w \in Workbooks} \cup {PyNone} :
          /\ name # file_uploader
          /\ file_uploader' = name
          /\ Ran(ScriptRun(st_session_state, history, name, "none"))
    /\ AppUnchanged

\* line 485: the user presses "1. Start Pre-processing"
ClickPreprocess ==
    /\ ~rerun
    /\ page.preprocess_button
    /\ Ran(ScriptRun(st_session_state, history, file_uploader, "btn_preprocess"))
    /\ UNCHANGED file_uploader
    /\ AppUnchanged

\* lines 549-554: the user toggles SELECT ALL; the callback runs first
ToggleSelectAll ==
    /\ ~rerun
    /\ page.confirm_button
    /\ LET toggled == Set(st_session_state, "select_all_large_options",
                          ~Get(st_session_state, "select_all_large_options", FALSE))
           ss == toggle_all_options(toggled)
           h == [history EXCEPT !.fresh =
                    @ \cup {"select_all_large_options"}
                      \cup {ss.large_dropdowns[i] : i \in 1..Len(ss.large_dropdowns)}]
       IN  Ran(ScriptRun(ss, h, file_uploader, "none"))
    /\ UNCHANGED file_uploader
    /\ AppUnchanged

\* lines 568-572: the user toggles the checkbox of one field
ToggleChoice ==
    /\ ~rerun
    /\ page.confirm_button
    /\ \E id \in DOMAIN st_session_state.config_choice :
          /\ \E i \in 1..Len(st_session_state.large_dropdowns) :
                st_session_state.large_dropdowns[i] = id
          /\ Ran(ScriptRun([st_session_state EXCEPT !.config_choice[id] = ~@],
                           [history EXCEPT !.fresh = @ \cup {id}],
                           file_uploader, "none"))
    /\ UNCHANGED file_uploader
    /\ AppUnchanged

\* line 575: the user presses "2. Confirm Configuration and Generate Documents"
ClickConfirm ==
    /\ ~rerun
    /\ page.confirm_button
    /\ Ran(ScriptRun(st_session_state, history, file_uploader, "btn_confirm"))
    /\ UNCHANGED file_uploader
    /\ AppUnchanged

\* line 649: the user presses "Start Over with a New File"
ClickStartOver ==
    /\ ~rerun
    /\ page.generate
    /\ Ran(ScriptRun(st_session_state, history, file_uploader, "btn_start_over"))
    /\ UNCHANGED file_uploader
    /\ AppUnchanged

AppNext ==
    \/ Rerun
    \/ SelectFile
    \/ ClickPreprocess
    \/ ToggleSelectAll
    \/ ToggleChoice
    \/ ClickConfirm
    \/ ClickStartOver

SpecApp == AppInit /\ [][AppNext]_vars

----------------------------------------------------------------------------
(* Properties of process_excel_st *)

input == uploaded_file.rows

\* blank as the specification defines it: null or a whitespace-only string
Blank(v) == v.t = "none" \/ (v.t = "str" /\ \A i \in 1..Len(v.s) : v.s[i] \in Whitespace)

\* R is the first row from start_row on whose column 7 is "Bird species"
MarkerAt(R) ==
    /\ R \in start_row..Len(input)
    /\ IsBirdSpecies(input[R][7])
    /\ \A q \in start_row..(R - 1) : ~IsBirdSpecies(input[q][7])

NoMarker == \A q \in start_row..Len(input) : ~IsBirdSpecies(input[q][7])

Returned == pc = "done" /\ ~result.buffer_none

\* C1: without a marker row, or when the first marker row has a non-blank
\* column 8, deleteFrom is lastRow + 1 and the output has as many rows as the
\* input.
C1_NoRowRemoved ==
    (/\ Returned
     /\ \/ NoMarker
        \/ \E R \in 1..Len(input) : MarkerAt(R) /\ ~Blank(input[R][8]))
    => /\ end_row_for_deletion = Len(input) + 1
       /\ Len(result.buffer) = Len(input)

\* C2: with the first marker row at R > start_row and a blank column 8, the
\* row removal keeps exactly rows 1..R-1 and the output is those rows.
C2_TruncatesAtMarker ==
    [][\A R \in 1..Len(input) :
          (pc = "delete" /\ MarkerAt(R) /\ R > start_row /\ Blank(input[R][8]))
          => /\ sheet' = SubSeq(sheet, 1, R - 1)
             /\ Len(sheet) = Len(input)
             /\ result'.buffer = sheet'
             /\ ~result'.buffer_none]_vars

C2_Witness ==
    /\ Returned
    /\ \E R \in 1..Len(input) :
          /\ MarkerAt(R) /\ R > start_row /\ Blank(input[R][8])
          /\ Len(input) > R
          /\ Len(result.buffer) = R - 1

\* the nearest non-blank input value of column c in rows start_row+1..r
NearestAbove(c, r) ==
    LET above == {q \in (start_row + 1)..r : ~Blank(input[q][c])}
    IN  IF above = {} THEN None
        ELSE input[CHOOSE q \in above : \A o \in above : o <= q][c]

\* C3: in columns 1..10, rows start_row+1..processEnd, a blank input cell ends
\* as the nearest non-blank value above it, or blank if rows start_row+1..r
\* hold none; a non-blank input cell is unchanged.
C3_FillDown ==
    (Returned /\ end_row_for_processing >= start_row)
    => \A c \in 1..10 :
          \A r \in (start_row + 1)..end_row_for_processing :
             r <= Len(result.buffer)
             => LET out == result.buffer[r][c]
                IN  IF ~Blank(input[r][c]) THEN out = input[r][c]
                    ELSE IF NearestAbove(c, r) = None THEN Blank(out)
                    ELSE out = NearestAbove(c, r)

\* C4: the fill steps never write a cell of the header row and never copy a
\* header cell into the first data row.
C4_HeaderUntouched ==
    [][(pc \in {"fill", "conditional"} /\ Len(sheet) > start_row)
       => /\ sheet'[start_row] = sheet[start_row]
          /\ sheet'[start_row + 1] = sheet[start_row + 1]]_vars

\* C5: after the special fill, every row of start_row+1..processEnd with a
\* non-blank column 3 has a non-blank column 4, and the special fill writes
\* only the literal, only into column 4 cells that are blank after the
\* fill-down and whose row has a non-blank column 3.
C5_Column4Sentinel ==
    /\ [](pc \in {"conditional", "delete", "done"} /\ end_row_for_processing >= start_row
          => \A r \in (start_row + 1)..end_row_for_processing :
                ~Blank(cell(sheet, r, 3)) => ~Blank(cell(sheet, r, 4)))
    /\ [][pc = "special"
          => \A r \in 1..Len(sheet) : \A c \in Columns :
                sheet'[r][c] # sheet[r][c]
                => /\ c = 4
                   /\ r \in (start_row + 1)..end_row_for_processing
                   /\ Blank(sheet[r][4])
                   /\ ~Blank(sheet[r][3])
                   /\ sheet'[r][4] = StrVal(EmptySubsection)]_vars

C5_Witness ==
    /\ Returned
    /\ \E r \in (start_row + 1)..end_row_for_processing :
          /\ r <= Len(result.buffer)
          /\ Blank(input[r][4])
          /\ ~Blank(result.buffer[r][3])
          /\ result.buffer[r][4] = StrVal(EmptySubsection)

\* C6: a cell of column 14 or 15 is written only by the conditional fill and
\* only in a row whose column 10 is "Dropdown select" and whose column 6
\* parses to a member of valid_values.
C6_ConditionalFillFrame ==
    [][\A r \in 1..Len(sheet) : \A c \in {14, 15} :
          (r <= Len(sheet') /\ sheet'[r][c] # sheet[r][c])
          => /\ pc = "conditional"
             /\ sheet[r][10] = StrVal(DropdownSelect)
             /\ int(sheet[r][6]).ok
             /\ int(sheet[r][6]).n \in valid_values]_vars

C6_Witness ==
    /\ pc = "delete"
    /\ \E r \in 2..Len(sheet) : sheet[r][14] # input[r][14]
    /\ \E r \in (start_row + 1)..end_row_for_processing :
          /\ sheet[r][10] = StrVal(DropdownSelect)
          /\ ~int(sheet[r][6]).ok
          /\ sheet[r][14] = None /\ sheet[r - 1][14] # None

\* C7: in a row that satisfies the condition, a blank (null or
\* whitespace-only) cell of column 14 or 15 receives the value of the row
\* above.
C7_ConditionalFillBlank ==
    [][pc = "conditional"
       => \A r \in (start_row + 1)..end_row_for_processing : \A c \in {14, 15} :
             (/\ sheet[r][10] = StrVal(DropdownSelect)
              /\ int(sheet[r][6]).ok
              /\ int(sheet[r][6]).n \in valid_values
              /\ Blank(sheet[r][c]))
             => sheet'[r][c] = sheet'[r - 1][c]]_vars

\* C8: when processEnd < start_row no cell is changed, rows deleteFrom..lastRow
\* are absent from the output and the returned code set is empty.
C8_SkipStillDeletes ==
    (Returned /\ end_row_for_processing < start_row)
    => /\ result.buffer = SubSeq(input, 1, end_row_for_deletion - 1)
       /\ result.codes = {}

----------------------------------------------------------------------------
(* Properties of create_forms_from_excel_st *)

\* the standardized table, once the call has returned
table == df.rows

Composed == cpc = "returned" /\ ~generated_files.none

\* the distinct valid options of a Field ID in the whole table
ValidOptions(field_id) ==
    {table[i].option : i \in {j \in 1..Len(table) :
                                 /\ table[j].field_id = field_id
                                 /\ lower(table[j].option) # NaText}}

\* the paragraphs of kind kind that follow the field paragraph at position i
\* of a document, up to the next field paragraph or the end of the subsection
FieldBlock(paragraphs, i, kind) ==
    {k \in (i + 1)..Len(paragraphs) :
        /\ paragraphs[k].kind = kind
        /\ \A m \in (i + 1)..k : paragraphs[m].kind \notin {"field", "blank"}}

ConfiguredTrue(field_id) ==
    field_id \in DOMAIN session_state /\ session_state[field_id]

\* C9: a "Dropdown select" field with 1..50 distinct valid options lists
\* each of them whatever the configuration; with more than 50 it lists each
\* of them when the entry of its Field ID is true, and shows one skip
\* placeholder and no option when the entry is false or absent.
C9_OptionThreshold ==
    Composed =>
    \A f \in 1..Len(generated_files.files) :
       LET ps == generated_files.files[f].paragraphs
       IN  \A i \in 1..Len(ps) :
              (ps[i].kind = "field" /\ table[ps[i].src].field_type = DropdownSelect)
              => LET options == ValidOptions(ps[i].field_id)
                     count == Cardinality(options)
                     listed == FieldBlock(ps, i, "option")
                     skipped == FieldBlock(ps, i, "skipped")
                     all == /\ Cardinality(listed) = count
                            /\ \A o \in options : \E k \in listed :
                                  ps[k].text = safe_text_for_docx(StrVal(o))
                            /\ skipped = {}
                 IN  /\ count \in 1..50 => all
                     /\ (count > 50 /\ ConfiguredTrue(ps[i].field_id)) => all
                     /\ (count > 50 /\ ~ConfiguredTrue(ps[i].field_id))
                        => Cardinality(skipped) = 1 /\ listed = {}

\* a document lists 50 options of one field although its entry is false and
\* skips the 51 options of another field whose entry is absent
C9_Witness ==
    /\ Composed
    /\ \E f \in 1..Len(generated_files.files) :
          LET ps == generated_files.files[f].paragraphs
          IN  \E i, j \in 1..Len(ps) :
                 /\ ps[i].kind = "field" /\ ps[j].kind = "field"
                 /\ Cardinality(ValidOptions(ps[i].field_id)) = 50
                 /\ ps[i].field_id \in DOMAIN session_state
                 /\ ~session_state[ps[i].field_id]
                 /\ Cardinality(FieldBlock(ps, i, "option")) = 50
                 /\ Cardinality(ValidOptions(ps[j].field_id)) = 51
                 /\ ps[j].field_id \notin DOMAIN session_state
                 /\ Cardinality(FieldBlock(ps, j, "skipped")) = 1

\* the rows of one form and section that a pass of the subsection loop for
\* the header h covers
RowsOfPass(form_desc, form_id, section, h) ==
    {i \in 1..Len(table) :
        /\ table[i].form_desc = form_desc /\ table[i].form_id = form_id
        /\ table[i].section = section
        /\ IF lower(strip(h)) \in {NaText, <<>>}
           THEN lower(strip(table[i].subsection)) \in {NaText, <<>>}
           ELSE table[i].subsection = h}

C11_UnnamedBucketOnce ==
    Composed =>
    \A f \in 1..Len(generated_files.files) :
       LET file == generated_files.files[f]
           ps == file.paragraphs
           bucket == {i \in 1..Len(table) :
                        /\ table[i].form_desc = file.form_desc
                        /\ table[i].form_id = file.form_id
                        /\ IsUnnamed(table[i].subsection)}
       IN  /\ \A k \in 1..Len(ps) :
                 ps[k].kind = "heading2" => ~IsUnnamed(ps[k].text)
           /\ \A i \in bucket :
                 Cardinality({k \in 1..Len(ps) :
                                 /\ ps[k].kind = "field"
                                 /\ ps[k].section = table[i].section
                                 /\ IsUnnamed(ps[k].subsection)
                                 /\ ps[k].field_id = table[i].field_id}) = 1

\* the rows of a section of a form
SectionRowsOf(file, section) ==
    {i \in 1..Len(table) :
        /\ table[i].form_desc = file.form_desc
        /\ table[i].form_id = file.form_id
        /\ table[i].section = section}

\* C12: the section headings of a form come in ascending order of the
\* sections' minimum Position ID, and sections with the same minimum come in
\* the order of their first rows in the table.
C12_SectionOrder ==
    Composed =>
    \A f \in 1..Len(generated_files.files) :
       LET file == generated_files.files[f]
           ps == file.paragraphs
           least(section) ==
               Minimum({table[i].position : i \in SectionRowsOf(file, section)})
           first(section) == Minimum(SectionRowsOf(file, section))
       IN  \A a, b \in 1..Len(ps) :
              (a < b /\ ps[a].kind = "heading1" /\ ps[b].kind = "heading1")
              => \/ least(ps[a].text) < least(ps[b].text)
                 \/ /\ least(ps[a].text) = least(ps[b].text)
                    /\ first(ps[a].text) < first(ps[b].text)

\* C14: a call on a table without data rows, with or without the header
\* row, ends in the failure result (None): it does not return a list of
\* documents.
C14_EmptyTableFails ==
    (cpc = "returned" /\ df.rows = <<>>) => generated_files.none

----------------------------------------------------------------------------
(* Properties of safe_text_for_docx *)

\* the ASCII control characters of the model
ControlChars == {"BEL", "\t", "\n"}

\* C13: for every argument safe_text_for_docx returns a text made of
\* printable ASCII characters only (no non-ASCII character, no ASCII
\* control character) that has no whitespace at either end.
C13_PrintableTrimmed ==
    tpc = "returned" =>
       /\ \A i \in 1..Len(docx_text) :
             IsAscii(docx_text[i]) /\ docx_text[i] \notin ControlChars
       /\ docx_text # <<>> =>
             /\ docx_text[1] \notin Whitespace
             /\ docx_text[Len(docx_text)] \notin Whitespace

----------------------------------------------------------------------------
(* Properties of main_app *)

\* the stored cleaned buffer, None when there is none
StoredBuffer == Get(st_session_state, "processed_excel_bytes", PyNone)

\* C15: the configuration phase and the generation phase run, and
\* create_forms_from_excel_st is called, only with a stored buffer that a
\* successful normalization returned, the call only with config_done set;
\* after a failed normalization no buffer and no valid_values are stored and
\* neither phase runs.
C15_PhasesNeedBuffer ==
    /\ (page.configure \/ page.generate \/ page.composed)
       => page.buffer # PyNone /\ WorkbookOf(page.buffer).has_sheet
    /\ page.composed => page.config_done
    /\ history.normalized = "failed"
       => /\ StoredBuffer = PyNone
          /\ Get(st_session_state, "valid_values", "set()") = "set()"
          /\ ~page.configure /\ ~page.generate /\ ~page.composed

\* create_forms_from_excel_st is called in a session in which an earlier
\* normalization failed
C15_Witness ==
    page.composed /\ page.config_done /\ history.failed_once

\* C16: a script run that calls process_excel_st calls reset_app_state; at
\* the end of a run that called reset_app_state without moving on no
\* config_choice_ entry and no select-all value exists; every such entry
\* that exists, in particular when create_forms_from_excel_st reads them,
\* was written after the last reset_app_state.
C16_NoCarryOver ==
    /\ page.normalized => page.reset
    /\ page.reset
       => /\ st_session_state.config_choice = NoChoices
          /\ "select_all_large_options" \notin st_session_state.has
    /\ DOMAIN st_session_state.config_choice \subseteq history.fresh
    /\ "select_all_large_options" \in st_session_state.has
       => "select_all_large_options" \in history.fresh

\* create_forms_from_excel_st is called with an entry that is false although
\* an earlier reset_app_state removed an entry that was true
C16_Witness ==
    /\ page.composed
    /\ history.dropped
    /\ \E id \in DOMAIN st_session_state.config_choice :
          ~st_session_state.config_choice[id]

\* C17: between two calls of reset_app_state, create_forms_from_excel_st is
\* called at most once, and after the call the stored generated_files is
\* not None, also when the call returned None or no document.
C17_ComposeOnce ==
    /\ history.calls <= 1
    /\ (page.composed /\ ~page.reset)
       => /\ "generated_files" \in st_session_state.has
          /\ ~st_session_state.generated_files.none

\* a later script run reaches the generation phase after a call that
\* returned None, and does not call again
C17_Witness ==
    /\ page.generate
    /\ ~page.composed
    /\ history.calls = 1
    /\ WorkbookOf(page.buffer).forms.none

\* C18: when create_forms_from_excel_st is called or documents are offered
\* for download, the stored buffer comes from the file selected in the
\* uploader.
C18_BufferOfSelectedFile ==
    (page.composed \/ page.offered) => page.buffer = file_uploader

====
